---- MODULE Spec2Model ----
(***************************************************************************)
(* Storage accounting and retention core of clipvive.                      *)
(*                                                                         *)
(* The repository holds two generations of the backend that share the      *)
(* database tables (user, job) and the storage directory (/data/storage):  *)
(*   "bak"  src/backend.bak.1763490862/app  (enqueue + RQ process_task,    *)
(*          delete_file, registry-driven cleanup_local_storage)            *)
(*   "cur"  src/backend/app                 (api_enqueue ->                *)
(*          save_job_payload, directory-driven cleanup_local_storage)      *)
(* apiImpl and cleanerImpl say which generation of the API/worker and of   *)
(* the cleaner container is deployed.                                      *)
(*                                                                         *)
(* Time is counted in days and kept relative to the present: Now is the    *)
(* origin, a file's mtime is stored as mtime - now (0 when just written,    *)
(* -2 two days later), and a day passing lowers every mtime by one.        *)
(***************************************************************************)
EXTENDS Integers, FiniteSets, Sequences, TLC

\* ---------------------------------------------------------------- bounds
MaxJobs == 2            \* intake requests (POST /api/enqueue) in one run
MaxAge == 2             \* file ages are told apart up to MaxAge days (> MaxRetention)
MaxTextLen == 1         \* payload texts have 1..MaxTextLen bytes
MaxFaults == 1          \* database / file-system failures in one run
CarriedUsage == 92      \* bytes an account may already hold when the run starts
MaxRetention == 1       \* a positive RETENTION_DAYS is configured in 1..MaxRetention
\* plan ceilings as configured through PLAN_*_BYTES (bytes)
PLAN_FREE_BYTES == 1116
PLAN_BASIC_BYTES == 1117
PLAN_PRO_BYTES == 1867
LongTextLen == 843      \* a long payload text: two of them overshoot PLAN_PRO_BYTES

\* ------------------------------------------------------- program constants
EstimateOverhead == 1024
\* bytes process_task writes around the text:
\* "job_id: " + uuid(36) + "\n" + "timestamp: " + iso(32) + "\n\n" + text + "\n"
EnvelopeBytes == 91

Owners == {1, 2}
NoOwner == 0
JobIds == 1..MaxJobs
TextLens == 1..MaxTextLen
Impls == {"bak", "cur"}
NoJob == 0

VARIABLES
    apiImpl,             \* generation of the API + worker
    cleanerImpl,         \* generation of the cleaner
    RETENTION_DAYS,      \* env RETENTION_DAYS
    plan,                \* user.plan per owner
    storage_used_bytes,  \* user.storage_used_bytes per owner
    job,                 \* job table: job_id -> row
    file,                \* storage directory: one entry per job id
    task,                \* intake request per job id (enqueue + process_task /
                         \* api_enqueue + save_job_payload)
    del,                 \* delete_file request in flight per job id
    sweep,               \* the cleaner loop and its cleanup_local_storage call
    nextJob,             \* next intake request / unused job id
    faults,              \* database and file-system failures so far
    decs                 \* history: ledger decrements applied per job id

vars == <<apiImpl, cleanerImpl, RETENTION_DAYS, plan, storage_used_bytes, job,
          file, task, del, sweep, nextJob, faults, decs>>

config == <<apiImpl, cleanerImpl, RETENTION_DAYS, plan>>

\* ------------------------------------------------------------ pure helpers

\* _inc_user_storage: COALESCE(storage_used_bytes,0) + :d
IncUserStorage(used, d) == used + d

DecNoFloor(used, d) == used - d
\* _dec_user_storage: GREATEST(COALESCE(storage_used_bytes,0) - :d, 0)
DecUserStorage(used, d) == IF used - d > 0 THEN used - d ELSE 0

EstimateTextOnly(len) == len
\* enqueue: max(len(text.encode('utf-8')) + 1024, 1024)
EstimatedSize(len) ==
    IF len + EstimateOverhead > EstimateOverhead THEN len + EstimateOverhead
    ELSE EstimateOverhead

\* enqueue: plan = user.plan or "free"; quotas.get(plan, quotas["free"])
QuotaOf(p) ==
    CASE p = "free" -> PLAN_FREE_BYTES
      [] p = "basic" -> PLAN_BASIC_BYTES
      [] p = "pro" -> PLAN_PRO_BYTES
      [] OTHER -> PLAN_FREE_BYTES

QuotaExceededOrEqual(used, est, quota) == used + est >= quota
\* enqueue: (user.storage_used_bytes or 0) + estimated_size > quota
QuotaExceeded(used, est, quota) == used + est > quota

\* process_task: os.path.getsize of the file it wrote
WrittenSize(len) == EnvelopeBytes + len

\* save_job_payload: filepath.stat().st_size of the encoded payload
PayloadSize(len) == len

\* datetime.now(), the origin of the relative clock
Now == 0

\* cleanup_local_storage: cutoff = now - RETENTION_DAYS days
Cutoff(t, days) == t - days

IsOlderOrEqual(mtime, cutoff) == mtime <= cutoff
\* cleanup_local_storage: mtime < cutoff
IsOlderThan(mtime, cutoff) == mtime < cutoff

\* the outcomes of a database or file-system call: it may fail while failures remain
Outcomes == IF faults < MaxFaults THEN BOOLEAN ELSE {TRUE}
Spend(ok) == IF ok THEN faults ELSE faults + 1

\* ------------------------------------------------------------------- state

NoRow == [exists |-> FALSE, owner_id |-> NoOwner, filename |-> NoJob,
          size_bytes |-> 0, status |-> "none"]
NoFile == [state |-> "none", size |-> 0, mtime |-> 0]
NoTask == [pc |-> "none", owner |-> NoOwner, len |-> 0, size |-> 0, seen |-> 0, inc |-> 0,
           alone |-> TRUE]
NoDel == [pc |-> "idle", user |-> NoOwner, size |-> 0, removed |-> FALSE]
NoRes == [kind |-> "none", deleted |-> -1, described |-> FALSE]
IdleSweep == [pc |-> "sleep", cutoff |-> 0, todo |-> {}, cur |-> NoJob, size |-> 0,
              deleted |-> 0, removed |-> {}, kept |-> {}, failed |-> {}, decd |-> {},
              wasDeleted |-> {}, res |-> NoRes]

\* ------------------------------------------------------ intake, generation bak

TaskQuiet(j) == task[j].pc \in {"none", "denied", "done", "raised", "returned", "failed"}

\* accounts are numbered in the order of their first request
KnownOwners == {task[j].owner : j \in JobIds} \ {NoOwner}
NextOwners == {u \in Owners : \A v \in Owners : v < u => v \in KnownOwners}

\* intake i is between its admission by the Quota Guard and its ledger increment
InFlight(i) == task[i].pc \in {"queued", "open", "write", "size", "inc"}

\* POST /api/enqueue (bak): the Quota Guard (403), else q.enqueue(process_task, ...);
\* history: alone is FALSE for an intake that shared some part of the time between its
\* admission and its increment with another admitted intake of the same owner
Enqueue(u, len) ==
    /\ apiImpl = "bak"
    /\ nextJob <= MaxJobs
    /\ u \in NextOwners
    /\ LET denied == QuotaExceeded(storage_used_bytes[u], EstimatedSize(len),
                                   QuotaOf(plan[u]))
           others == {i \in JobIds : task[i].owner = u /\ InFlight(i)}
       IN task' = [i \in JobIds |->
                     IF i = nextJob
                     THEN [pc |-> IF denied THEN "denied" ELSE "queued",
                           owner |-> u, len |-> len, size |-> 0, seen |-> 0, inc |-> 0,
                           alone |-> denied \/ others = {}]
                     ELSE IF ~denied /\ i \in others
                     THEN [task[i] EXCEPT !.alone = FALSE]
                     ELSE task[i]]
    /\ nextJob' = nextJob + 1
    /\ UNCHANGED <<config, storage_used_bytes, job, file, del, sweep, faults, decs>>

\* the RQ worker is busy inside process_task
WorkerBusy == \E j \in JobIds : task[j].pc \in {"open", "write", "size", "inc", "update"}

\* the RQ worker takes the oldest job of the "default" queue;
\* process_task: create the job row as 'processing' (errors swallowed)
ProcCreate(j) ==
    /\ apiImpl = "bak"
    /\ task[j].pc = "queued"
    /\ ~WorkerBusy
    /\ \A i \in JobIds : task[i].pc = "queued" => j <= i
    /\ \E dbOk \in Outcomes :
          /\ job' = IF dbOk /\ ~job[j].exists
                    THEN [job EXCEPT ![j] =
                             [exists |-> TRUE, owner_id |-> task[j].owner,
                              filename |-> j, size_bytes |-> 0, status |-> "processing"]]
                    ELSE job
          /\ faults' = Spend(dbOk)
    /\ task' = [task EXCEPT ![j].pc = "open"]
    /\ UNCHANGED <<config, storage_used_bytes, file, del, sweep, nextJob, decs>>

\* process_task: open(filename, "w") creates (or truncates) the file at its final path
ProcOpen(j) ==
    /\ apiImpl = "bak"
    /\ task[j].pc = "open"
    /\ file' = [file EXCEPT ![j] = [state |-> "final", size |-> 0, mtime |-> Now]]
    /\ task' = [task EXCEPT ![j].pc = "write"]
    /\ UNCHANGED <<config, storage_used_bytes, job, del, sweep, nextJob, faults, decs>>

\* process_task: the three f.write calls reach the file when the with block closes it
\* (a file removed meanwhile stays removed: the bytes go to the unlinked inode)
ProcWrite(j) ==
    /\ apiImpl = "bak"
    /\ task[j].pc = "write"
    /\ file' = IF file[j].state = "final"
               THEN [file EXCEPT ![j].size = WrittenSize(task[j].len), ![j].mtime = Now]
               ELSE file
    /\ task' = [task EXCEPT ![j].pc = "size"]
    /\ UNCHANGED <<config, storage_used_bytes, job, del, sweep, nextJob, faults, decs>>

\* process_task: size = os.path.getsize(filename), 0 on any error
ProcSize(j) ==
    /\ apiImpl = "bak"
    /\ task[j].pc = "size"
    /\ task' = [task EXCEPT ![j].pc = "inc",
                            ![j].size = IF file[j].state = "final" THEN file[j].size ELSE 0]
    /\ UNCHANGED <<config, storage_used_bytes, job, file, del, sweep, nextJob, faults,
                   decs>>

\* process_task: if owner_id: _inc_user_storage(owner_id, size); a database error
\* propagates out of process_task
ProcInc(j) ==
    /\ apiImpl = "bak"
    /\ task[j].pc = "inc"
    /\ IF task[j].owner # NoOwner
       THEN \E dbOk \in Outcomes :
              /\ storage_used_bytes' =
                    IF dbOk
                    THEN [storage_used_bytes EXCEPT ![task[j].owner] =
                             IncUserStorage(@, task[j].size)]
                    ELSE storage_used_bytes
              /\ task' = [task EXCEPT ![j].pc = IF dbOk THEN "update" ELSE "raised",
                                      ![j].inc = IF dbOk THEN task[j].size ELSE 0,
                                      ![j].alone = TRUE]
              /\ faults' = Spend(dbOk)
       ELSE /\ task' = [task EXCEPT ![j].pc = "done", ![j].alone = TRUE]
            /\ UNCHANGED <<storage_used_bytes, faults>>
    /\ UNCHANGED <<config, job, file, del, sweep, nextJob, decs>>

\* process_task: j.status = "done", whatever the row's status is
ProcStatus(cur) == "done"

\* process_task: j = session.get(Job, job_id); size_bytes, status, processed_at; commit
\* (errors swallowed).  upload_to_s3 then answers {"uploaded": False, "reason":
\* "no_s3_config"} (S3_ENDPOINT is unset), the local file stays and process_task returns
ProcUpdate(j) ==
    /\ apiImpl = "bak"
    /\ task[j].pc = "update"
    /\ \E dbOk \in Outcomes :
          /\ job' = IF dbOk /\ job[j].exists
                    THEN [job EXCEPT ![j].size_bytes = task[j].size,
                                     ![j].status = ProcStatus(@)]
                    ELSE job
          /\ faults' = Spend(dbOk)
    /\ task' = [task EXCEPT ![j].pc = "done"]
    /\ UNCHANGED <<config, storage_used_bytes, file, del, sweep, nextJob, decs>>

\* ------------------------------------------------------ intake, generation cur

\* _get_owner_from_auth: None without a bearer dev token, else the placeholder owner 1
AuthOwners == {NoOwner, 1}

WritePathFinal == "final"
\* save_job_payload: tmp_path = filepath.with_suffix(".tmp"), the path the bytes are
\* written to
WritePath == "tmp"

\* POST /api/enqueue (cur) -> save_job_payload: uuid4, open(tmp_path, "wb"), write.
\* A failing open leaves nothing; a failing write (disk full) leaves the truncated
\* temporary file; both raise and api_enqueue answers 500.
ApiEnqueue(o, len) ==
    /\ apiImpl = "cur"
    /\ nextJob <= MaxJobs
    /\ \E outcome \in {"ok"} \cup
             (IF faults < MaxFaults THEN {"open_fails", "write_fails"} ELSE {}) :
          /\ task' = [task EXCEPT ![nextJob] =
                         [pc |-> IF outcome = "ok" THEN "replace" ELSE "failed",
                          owner |-> o, len |-> len, size |-> 0, seen |-> 0, inc |-> 0,
                           alone |-> TRUE]]
          /\ file' = CASE outcome = "ok" ->
                            [file EXCEPT ![nextJob] =
                                [state |-> WritePath, size |-> PayloadSize(len),
                                 mtime |-> Now]]
                       [] outcome = "write_fails" ->
                            [file EXCEPT ![nextJob] =
                                [state |-> WritePath, size |-> 0, mtime |-> Now]]
                       [] OTHER -> file
          /\ faults' = Spend(outcome = "ok")
    /\ nextJob' = nextJob + 1
    /\ UNCHANGED <<config, storage_used_bytes, job, del, sweep, decs>>

\* save_job_payload: tmp_path.replace(filepath); an error (the temporary file is gone,
\* or the rename fails) raises and api_enqueue answers 500; nothing is cleaned up
SaveReplace(j) ==
    /\ apiImpl = "cur"
    /\ task[j].pc = "replace"
    /\ IF file[j].state = WritePath
       THEN \E fsOk \in Outcomes :
              /\ file' = IF fsOk THEN [file EXCEPT ![j].state = "final"] ELSE file
              /\ task' = [task EXCEPT ![j].pc = IF fsOk THEN "stat" ELSE "failed"]
              /\ faults' = Spend(fsOk)
       ELSE /\ task' = [task EXCEPT ![j].pc = "failed"]
            /\ UNCHANGED <<file, faults>>
    /\ UNCHANGED <<config, storage_used_bytes, job, del, sweep, nextJob, decs>>

\* save_job_payload: size = filepath.stat().st_size (an error -> api_enqueue's 500);
\* without an owner_id no database work follows and the call returns
SaveStat(j) ==
    /\ apiImpl = "cur"
    /\ task[j].pc = "stat"
    /\ task' = IF file[j].state = "final"
               THEN [task EXCEPT ![j].size = file[j].size,
                                 ![j].pc = IF task[j].owner # NoOwner THEN "select"
                                           ELSE "returned"]
               ELSE [task EXCEPT ![j].pc = "failed"]
    /\ UNCHANGED <<config, storage_used_bytes, job, file, del, sweep, nextJob, faults,
                   decs>>

RowAlwaysFree(o) == TRUE
\* with_for_update(): the SELECT waits while another transaction holds the user row
RowFree(o) == ~\E i \in JobIds : task[i].pc = "locked" /\ task[i].owner = o

\* save_job_payload: session.query(User).filter_by(id=owner_id).with_for_update()
\* .one_or_none(); a database error is swallowed and the call returns
SaveSelect(j) ==
    /\ apiImpl = "cur"
    /\ task[j].pc = "select"
    /\ \E dbOk \in Outcomes :
          /\ dbOk => RowFree(task[j].owner)
          /\ task' = IF dbOk
                     THEN [task EXCEPT ![j].pc = "locked",
                                       ![j].seen = storage_used_bytes[task[j].owner]]
                     ELSE [task EXCEPT ![j].pc = "returned"]
          /\ faults' = Spend(dbOk)
    /\ UNCHANGED <<config, storage_used_bytes, job, file, del, sweep, nextJob, decs>>

\* save_job_payload: u.storage_used_bytes = (u.storage_used_bytes or 0) + size; commit
\* (an error: rollback, swallowed); the call returns {job_id, filename, size_bytes} and
\* api_enqueue answers {enqueued: true, job_id}
SaveAccount(j) ==
    /\ apiImpl = "cur"
    /\ task[j].pc = "locked"
    /\ \E dbOk \in Outcomes :
          /\ storage_used_bytes' =
                IF dbOk
                THEN [storage_used_bytes EXCEPT ![task[j].owner] =
                         IncUserStorage(task[j].seen, task[j].size)]
                ELSE storage_used_bytes
          /\ task' = [task EXCEPT ![j].pc = "returned",
                                  ![j].inc = IF dbOk THEN task[j].size ELSE 0]
          /\ faults' = Spend(dbOk)
    /\ UNCHANGED <<config, job, file, del, sweep, nextJob, decs>>

\* ------------------------------------------------------ DELETE /api/files/{job_id}

DeleteAnyones(u, j) == job[j].exists
\* delete_file: job = session.get(Job, job_id);
\* if not job or job.owner_id != user.id: raise HTTPException(404)
DeleteAllowed(u, j) == job[j].exists /\ job[j].owner_id = u

\* delete_file: 404 (no effect) unless allowed; job.filename and isfile, getsize,
\* os.remove.  A failing os.remove answers 500 with nothing changed.
DelStart(u, j) ==
    /\ apiImpl = "bak"
    /\ del[j].pc = "idle"
    /\ DeleteAllowed(u, j)
    /\ IF job[j].filename # NoJob /\ file[job[j].filename].state = "final"
       THEN \E fsOk \in Outcomes :
              /\ file' = IF fsOk THEN [file EXCEPT ![job[j].filename].state = "none"]
                         ELSE file
              /\ del' = IF fsOk
                        THEN [del EXCEPT ![j] =
                                [pc |-> "commit", user |-> u,
                                 size |-> file[job[j].filename].size, removed |-> TRUE]]
                        ELSE del
              /\ faults' = Spend(fsOk)
       ELSE /\ del' = [del EXCEPT ![j] =
                          [pc |-> "commit", user |-> u, size |-> 0, removed |-> FALSE]]
            /\ UNCHANGED <<file, faults>>
    /\ UNCHANGED <<config, storage_used_bytes, job, task, sweep, nextJob, decs>>

DeleteDecrementsAlways(removed) == TRUE
\* delete_file: the UPDATE is inside "if job.filename and os.path.isfile(job.filename)",
\* after os.remove: only a call that removed the file decrements
DeleteDecrements(removed) == removed

\* delete_file: the UPDATE of user.id's ledger (when the file was removed) and
\* job.status = "deleted" are committed together; any error -> 500, both rolled back
DelCommit(j) ==
    /\ apiImpl = "bak"
    /\ del[j].pc = "commit"
    /\ \E dbOk \in Outcomes :
          LET dec == dbOk /\ DeleteDecrements(del[j].removed) IN
          /\ storage_used_bytes' =
                IF dec
                THEN [storage_used_bytes EXCEPT ![del[j].user] =
                         DecUserStorage(@, del[j].size)]
                ELSE storage_used_bytes
          /\ decs' = IF dec THEN [decs EXCEPT ![j] = @ + 1] ELSE decs
          /\ job' = IF dbOk THEN [job EXCEPT ![j].status = "deleted"] ELSE job
          /\ faults' = Spend(dbOk)
    /\ del' = [del EXCEPT ![j] = NoDel]
    /\ UNCHANGED <<config, file, task, sweep, nextJob>>

\* ------------------------------------------------------ cleanup_local_storage

SelectDoneOrDeleted == {j \in JobIds : job[j].exists /\ job[j].status \in {"done", "deleted"}}
\* cleanup_local_storage (bak): select(Job).where(Job.status == "done")
SelectDone == {j \in JobIds : job[j].exists /\ job[j].status = "done"}

\* cleanup_local_storage (cur): Path(STORAGE_PATH).iterdir(), .tmp files included
ListDir == {<<j, file[j].state>> : j \in {i \in JobIds : file[i].state # "none"}}

NextOf(todo) == CHOOSE c \in todo : \A d \in todo : c[1] <= d[1]

BakFailureRaised == [kind |-> "raised", deleted |-> -1, described |-> FALSE]
\* cleanup_local_storage (bak): except Exception as e: return {"error": str(e)}
BakFailureResult == [kind |-> "error", deleted |-> -1, described |-> TRUE]

\* cleanup_local_storage (cur): except Exception: return {"deleted": 0}
CurFailureResult == [kind |-> "error", deleted |-> 0, described |-> FALSE]

\* cleanup_local_storage (bak): return {"deleted": 0, "reason": "no_dir"}
NoDirRaised == [kind |-> "raised", deleted |-> -1, described |-> FALSE]
NoDirResult == [kind |-> "no_dir", deleted |-> 0, described |-> TRUE]

\* cleaner.py __main__: the cur loop wraps the call in try/except Exception and goes on
\* to sleep; the bak loop has no try, an exception leaves the while loop
CleanerCatches(impl) == impl = "cur"

\* cleanup_local_storage: return {"deleted": deleted}
CountResult(n) == [kind |-> "ok", deleted |-> n, described |-> FALSE]

\* the call starts: cutoff; history: the jobs whose status is 'deleted' at that moment
FreshSweep(todo) ==
    [IdleSweep EXCEPT !.pc = "scan", !.cutoff = Cutoff(Now, RETENTION_DAYS),
                      !.todo = todo,
                      !.wasDeleted = {j \in JobIds : job[j].status = "deleted"}]

Returned(sw, res) == [sw EXCEPT !.pc = "returned", !.cur = NoJob, !.res = res]

\* cleaner.py wakes up and calls cleanup_local_storage (bak): cutoff_ts, isdir,
\* Session(engine), the done jobs
SweepStartBak ==
    /\ cleanerImpl = "bak"
    /\ sweep.pc = "sleep"
    /\ \E outcome \in {"ok"} \cup (IF faults < MaxFaults THEN {"no_dir", "db_error"} ELSE {}) :
          /\ sweep' = CASE outcome = "ok" ->
                             FreshSweep({<<j, "final">> : j \in SelectDone})
                        [] outcome = "no_dir" -> Returned(FreshSweep({}), NoDirResult)
                        [] OTHER -> Returned(FreshSweep({}), BakFailureResult)
          /\ faults' = Spend(outcome = "ok")
    /\ UNCHANGED <<config, storage_used_bytes, job, file, task, del, nextJob, decs>>

\* cleanup_local_storage (bak), one job: filename, isfile, getmtime, mtime < cutoff_ts,
\* getsize, os.remove, deleted += 1; an error is swallowed by the per-job except and
\* the loop continues
SweepRemoveBak ==
    /\ cleanerImpl = "bak"
    /\ sweep.pc = "scan"
    /\ sweep.todo # {}
    /\ LET c == NextOf(sweep.todo)
           j == c[1]
           rest == sweep.todo \ {c}
       IN IF job[j].filename = NoJob \/ file[j].state # "final"
          THEN /\ sweep' = [sweep EXCEPT !.todo = rest]
               /\ UNCHANGED <<file, faults>>
          ELSE \E fsOk \in Outcomes :
                 /\ faults' = Spend(fsOk)
                 /\ IF ~fsOk
                    THEN /\ sweep' = [sweep EXCEPT !.todo = rest, !.failed = @ \cup {j}]
                         /\ UNCHANGED file
                    ELSE IF IsOlderThan(file[j].mtime, sweep.cutoff)
                    THEN /\ file' = [file EXCEPT ![j].state = "none"]
                         /\ sweep' = [sweep EXCEPT !.todo = rest, !.pc = "account",
                                         !.cur = j, !.size = file[j].size,
                                         !.deleted = @ + 1, !.removed = @ \cup {j}]
                    ELSE /\ sweep' = [sweep EXCEPT !.todo = rest, !.kept = @ \cup {j}]
                         /\ UNCHANGED file
    /\ UNCHANGED <<config, storage_used_bytes, job, task, del, nextJob, decs>>

\* cleanup_local_storage (bak): if job.owner_id: _dec_user_storage(owner, size);
\* job.status = "deleted"; commit; an error is swallowed and the loop continues
SweepAccountBak ==
    /\ cleanerImpl = "bak"
    /\ sweep.pc = "account"
    /\ LET j == sweep.cur
           o == job[j].owner_id
       IN \E outcome \in {"ok"} \cup
                 (IF faults < MaxFaults
                  THEN {"commit_fails"} \cup (IF o # NoOwner THEN {"dec_fails"} ELSE {})
                  ELSE {}) :
            LET dec == o # NoOwner /\ outcome # "dec_fails" IN
            /\ storage_used_bytes' =
                  IF dec
                  THEN [storage_used_bytes EXCEPT ![o] = DecUserStorage(@, sweep.size)]
                  ELSE storage_used_bytes
            /\ decs' = IF dec THEN [decs EXCEPT ![j] = @ + 1] ELSE decs
            /\ job' = IF outcome = "ok"
                      THEN [job EXCEPT ![j].status = "deleted"]
                      ELSE job
            /\ sweep' = [sweep EXCEPT !.pc = "scan", !.cur = NoJob,
                                      !.decd = IF dec THEN @ \cup {j} ELSE @]
            /\ faults' = Spend(outcome = "ok")
    /\ UNCHANGED <<config, file, task, del, nextJob>>

\* cleanup_local_storage (bak): return {"deleted": deleted}
SweepReturnBak ==
    /\ cleanerImpl = "bak"
    /\ sweep.pc = "scan"
    /\ sweep.todo = {}
    /\ sweep' = Returned(sweep, CountResult(sweep.deleted))
    /\ UNCHANGED <<config, storage_used_bytes, job, file, task, del, nextJob, faults,
                   decs>>

\* cleaner.py wakes up and calls cleanup_local_storage (cur): cutoff, iterdir
SweepStartCur ==
    /\ cleanerImpl = "cur"
    /\ sweep.pc = "sleep"
    /\ \E fsOk \in Outcomes :
          /\ sweep' = IF fsOk THEN FreshSweep(ListDir)
                      ELSE Returned(FreshSweep({}), CurFailureResult)
          /\ faults' = Spend(fsOk)
    /\ UNCHANGED <<config, storage_used_bytes, job, file, task, del, nextJob, decs>>

\* cleanup_local_storage (cur): the per-file try catches FileNotFoundError and
\* PermissionError only; any other error reaches the outer except
PerFileAborts(err) == err = "other"

\* cleanup_local_storage (cur), one directory entry: is_file, stat, mtime < cutoff,
\* unlink, deleted += 1
SweepFileCur ==
    /\ cleanerImpl = "cur"
    /\ sweep.pc = "scan"
    /\ sweep.todo # {}
    /\ LET c == NextOf(sweep.todo)
           j == c[1]
           rest == sweep.todo \ {c}
       IN IF file[j].state # c[2]
          THEN /\ sweep' = [sweep EXCEPT !.todo = rest]
               /\ UNCHANGED <<file, faults>>
          ELSE \E err \in {"ok"} \cup
                     (IF faults < MaxFaults THEN {"perm", "other"} ELSE {}) :
                 /\ faults' = Spend(err = "ok")
                 /\ IF err = "ok"
                    THEN IF IsOlderThan(file[j].mtime, sweep.cutoff)
                         THEN /\ file' = [file EXCEPT ![j].state = "none"]
                              /\ sweep' = [sweep EXCEPT !.todo = rest, !.deleted = @ + 1,
                                                        !.removed = @ \cup {j}]
                         ELSE /\ sweep' = [sweep EXCEPT !.todo = rest,
                                                        !.kept = @ \cup {j}]
                              /\ UNCHANGED file
                    ELSE IF PerFileAborts(err)
                    THEN /\ sweep' = Returned([sweep EXCEPT !.todo = rest,
                                                              !.failed = @ \cup {j}],
                                              CurFailureResult)
                         /\ UNCHANGED file
                    ELSE /\ sweep' = [sweep EXCEPT !.todo = rest, !.failed = @ \cup {j}]
                         /\ UNCHANGED file
    /\ UNCHANGED <<config, storage_used_bytes, job, task, del, nextJob, decs>>

\* cleanup_local_storage (cur): rows = jobs with a filename; a row whose file does not
\* exist gets status "deleted"; commit (errors swallowed); return {"deleted": deleted}
SweepReconcileCur ==
    /\ cleanerImpl = "cur"
    /\ sweep.pc = "scan"
    /\ sweep.todo = {}
    /\ \E dbOk \in Outcomes :
          /\ job' = IF dbOk
                    THEN [j \in JobIds |->
                             IF job[j].exists /\ job[j].filename # NoJob
                                /\ file[job[j].filename].state # "final"
                             THEN [job[j] EXCEPT !.status = "deleted"]
                             ELSE job[j]]
                    ELSE job
          /\ faults' = Spend(dbOk)
    /\ sweep' = Returned(sweep, CountResult(sweep.deleted))
    /\ UNCHANGED <<config, storage_used_bytes, file, task, del, nextJob, decs>>

\* cleaner.py: print("cleanup result:", res); time.sleep(SLEEP_SECONDS)
CleanerSleep ==
    /\ sweep.pc = "returned"
    /\ sweep.res.kind = "raised" => CleanerCatches(cleanerImpl)
    /\ sweep' = IdleSweep
    /\ UNCHANGED <<config, storage_used_bytes, job, file, task, del, nextJob, faults,
                   decs>>

\* ------------------------------------------------------------- environment

\* a day passes between two sweeps (a sweep takes far less than a day): every
\* stored file is a day older; ages beyond MaxAge are not told apart
Tick ==
    /\ sweep.pc = "sleep"
    /\ \E j \in JobIds : file[j].state # "none" /\ file[j].mtime > -MaxAge
    /\ file' = [j \in JobIds |->
                  IF file[j].state # "none" /\ file[j].mtime > -MaxAge
                  THEN [file[j] EXCEPT !.mtime = @ - 1]
                  ELSE file[j]]
    /\ UNCHANGED <<config, storage_used_bytes, job, task, del, sweep, nextJob, faults,
                   decs>>

\* ---------------------------------------------------------- specifications

Blank ==
    /\ job = [j \in JobIds |-> NoRow]
    /\ file = [j \in JobIds |-> NoFile]
    /\ task = [j \in JobIds |-> NoTask]
    /\ del = [j \in JobIds |-> NoDel]
    /\ sweep = IdleSweep
    /\ nextJob = 1
    /\ faults = 0
    /\ decs = [j \in JobIds |-> 0]

\* the deployments: <<API and worker, cleaner>>
Deployments == {<<"bak", "bak">>, <<"cur", "cur">>, <<"bak", "cur">>}

\* a deployment with a positive retention period, every account on the free plan;
\* under the cur API, which never lowers the ledger, account 1 may carry usage
Init ==
    /\ \E d \in Deployments : apiImpl = d[1] /\ cleanerImpl = d[2]
    /\ RETENTION_DAYS \in 1..MaxRetention
    /\ plan = [o \in Owners |-> "free"]
    /\ storage_used_bytes \in
          {[o \in Owners |-> IF o = 1 THEN c ELSE 0] :
              c \in IF apiImpl = "cur" THEN {0, CarriedUsage} ELSE {0}}
    /\ Blank

Next ==
    \/ \E u \in Owners, len \in TextLens : Enqueue(u, len)
    \/ \E j \in JobIds : ProcCreate(j)
    \/ \E j \in JobIds : ProcOpen(j)
    \/ \E j \in JobIds : ProcWrite(j)
    \/ \E j \in JobIds : ProcSize(j)
    \/ \E j \in JobIds : ProcInc(j)
    \/ \E j \in JobIds : ProcUpdate(j)
    \/ \E o \in AuthOwners, len \in TextLens : ApiEnqueue(o, len)
    \/ \E j \in JobIds : SaveReplace(j)
    \/ \E j \in JobIds : SaveStat(j)
    \/ \E j \in JobIds : SaveSelect(j)
    \/ \E j \in JobIds : SaveAccount(j)
    \/ \E u \in Owners, j \in JobIds : DelStart(u, j)
    \/ \E j \in JobIds : DelCommit(j)
    \/ SweepStartBak
    \/ SweepRemoveBak
    \/ SweepAccountBak
    \/ SweepReturnBak
    \/ SweepStartCur
    \/ SweepFileCur
    \/ SweepReconcileCur
    \/ CleanerSleep
    \/ Tick

Spec == Init /\ [][Next]_vars

\* ------------------------------------------------------------------ typing

TypeOK ==
    /\ apiImpl \in Impls /\ cleanerImpl \in Impls
    /\ nextJob \in 1..(MaxJobs + 1)
    /\ faults \in 0..MaxFaults
    /\ \A j \in JobIds : decs[j] \in 0..2 /\ file[j].mtime \in -MaxAge..0

\* user.plan values: the three tiers, an unrecognized name, and NULL ("")
Plans == {"free", "basic", "pro", "gold", ""}

\* the bak intake path alone, every account on any plan
InitGuard ==
    /\ apiImpl = "bak" /\ cleanerImpl = "bak"
    /\ RETENTION_DAYS = 1
    /\ plan \in [Owners -> Plans]
    /\ storage_used_bytes = [o \in Owners |-> 0]
    /\ Blank

NextGuard ==
    \/ \E u \in Owners, len \in TextLens : Enqueue(u, len)
    \/ \E j \in JobIds : ProcCreate(j)
    \/ \E j \in JobIds : ProcOpen(j)
    \/ \E j \in JobIds : ProcWrite(j)
    \/ \E j \in JobIds : ProcSize(j)
    \/ \E j \in JobIds : ProcInc(j)
    \/ \E j \in JobIds : ProcUpdate(j)

SpecGuard == InitGuard /\ [][NextGuard]_vars

\* a deployment whose RETENTION_DAYS is zero or negative
InitShort ==
    /\ \E d \in Deployments : apiImpl = d[1] /\ cleanerImpl = d[2]
    /\ RETENTION_DAYS \in -MaxRetention..0
    /\ plan = [o \in Owners |-> "free"]
    /\ storage_used_bytes = [o \in Owners |-> 0]
    /\ Blank

\* intake and the cleaner, without the delete API
NextShort ==
    \/ \E u \in Owners, len \in TextLens : Enqueue(u, len)
    \/ \E j \in JobIds : ProcCreate(j)
    \/ \E j \in JobIds : ProcOpen(j)
    \/ \E j \in JobIds : ProcWrite(j)
    \/ \E j \in JobIds : ProcSize(j)
    \/ \E j \in JobIds : ProcInc(j)
    \/ \E j \in JobIds : ProcUpdate(j)
    \/ \E o \in AuthOwners, len \in TextLens : ApiEnqueue(o, len)
    \/ \E j \in JobIds : SaveReplace(j)
    \/ \E j \in JobIds : SaveStat(j)
    \/ \E j \in JobIds : SaveSelect(j)
    \/ \E j \in JobIds : SaveAccount(j)
    \/ SweepStartBak
    \/ SweepRemoveBak
    \/ SweepAccountBak
    \/ SweepReturnBak
    \/ SweepStartCur
    \/ SweepFileCur
    \/ SweepReconcileCur
    \/ CleanerSleep
    \/ Tick

SpecShort == InitShort /\ [][NextShort]_vars

\* ------------------------------------------------------------------ claims

\* C1: for every owner storage_used_bytes >= 0 in every reachable state, whatever the
\* interleaving of increments (intake) and decrements (sweep, delete API), including a
\* decrement larger than the balance, which is clamped to 0.
C1_LedgerNonNegative == \A o \in Owners : storage_used_bytes[o] >= 0

\* C1 case: job j's file was deleted through the API and its bytes were taken off a
\* ledger that no intake had been added to yet (decrement 92 on balance 0)
C1_DecrementBeyondBalance ==
    \E j \in JobIds :
        /\ decs[j] >= 1
        /\ file[j].state = "none" /\ file[j].size > 0
        /\ task[j].pc \in {"size", "inc"}
        /\ \A i \in JobIds \ {j} : task[i].pc \in {"none", "queued", "denied"}
        /\ storage_used_bytes[task[j].owner] = 0

\* C2 (as stated): a job's status only moves forward, none/processing -> done ->
\* deleted, and never reverts, under any interleaving of process_task, the delete API
\* and the sweep with its registry reconciliation.
C2_StatusOnlyForward ==
    [][\A j \in JobIds :
          LET rank(s) == CASE s = "none" -> 0 [] s = "processing" -> 1
                           [] s = "done" -> 2 [] OTHER -> 3
          IN rank(job'[j].status) >= rank(job[j].status)]_vars

C4_DeletesAgeAtLeastT ==
    /\ \A j \in sweep.removed : Now - file[j].mtime >= RETENTION_DAYS
    /\ \A j \in sweep.kept : Now - file[j].mtime < RETENTION_DAYS

\* C4 (amended): a sweep with a positive threshold T deletes, among the files it
\* examines, exactly those whose age is > T; a file of age <= T (age = T included)
\* stays on disk and the sweep applies no decrement for it.
C4_DeletesOlderThanT ==
    /\ \A j \in sweep.removed : Now - file[j].mtime > RETENTION_DAYS
    /\ \A j \in sweep.kept : Now - file[j].mtime <= RETENTION_DAYS
    /\ sweep.kept \cap (sweep.removed \cup sweep.decd) = {}

\* C4 case: one sweep removed a file older than T and kept a file of age exactly T
C4_BoundaryFileKept ==
    /\ sweep.pc = "returned"
    /\ \E i \in sweep.removed, j \in sweep.kept :
          /\ Now - file[j].mtime = RETENTION_DAYS
          /\ file[j].state = "final"

\* C5 (as stated): when a sweep deletes the file of an intake that has an owner, the
\* same sweep decrements the owner's ledger by the file's size and the job's status
\* becomes 'deleted' (stated for intakes that returned successfully, in runs without
\* any database or file-system failure).
C5_SweepDeletionIsAccounted ==
    sweep.pc = "returned" /\ faults = 0 =>
        \A j \in sweep.removed :
            task[j].owner # NoOwner /\ task[j].pc \in {"done", "returned"} =>
                /\ j \in sweep.decd
                /\ job[j].exists /\ TaskQuiet(j) => job[j].status = "deleted"

\* C6 (as stated): a failure on one candidate file never aborts the sweep; the other
\* candidates are still examined and the returned count is the number of files removed.
C6_PerFileFailureIsContained ==
    sweep.pc = "returned" /\ sweep.failed # {} =>
        /\ sweep.todo = {}
        /\ sweep.res.deleted = Cardinality(sweep.removed)

C8_QuotaGuardDecision ==
    [][/\ \A j \in JobIds :
             task[j].pc = "none" /\ task'[j].pc # "none" =>
                LET o == task'[j].owner
                    ceiling == IF plan[o] = "basic" THEN PLAN_BASIC_BYTES
                               ELSE IF plan[o] = "pro" THEN PLAN_PRO_BYTES
                               ELSE PLAN_FREE_BYTES
                IN task'[j].pc = "denied" <=>
                      storage_used_bytes[o] + task'[j].len + EstimateOverhead > ceiling
       /\ QuotaExceeded(900, 150, 1000)
       /\ ~QuotaExceeded(900, 50, 1000)
       /\ QuotaExceeded(IncUserStorage(900, 50), 60, 1000)]_vars

\* C8 case: a request of an account on an unrecognized plan was denied against the
\* free ceiling after an earlier intake of the account was committed to the ledger
C8_DeniedOnFallbackPlan ==
    \E j \in JobIds :
        /\ task[j].pc = "denied"
        /\ plan[task[j].owner] = "gold"
        /\ storage_used_bytes[task[j].owner] > 0

\* C9 (as stated): POST /api/enqueue for an owner whose usage plus the size estimate
\* exceeds the plan quota is rejected with 403 and writes no file, creates no job and
\* leaves the ledger unchanged.
C9_OverQuotaIsRejected ==
    [][\A j \in JobIds :
          LET o == task'[j].owner IN
          /\ task[j].pc = "none" /\ task'[j].pc # "none"
          /\ o # NoOwner
          /\ QuotaExceeded(storage_used_bytes[o], EstimatedSize(task'[j].len),
                           QuotaOf(plan[o]))
          => /\ task'[j].pc = "denied"
             /\ file' = file /\ job' = job
             /\ storage_used_bytes' = storage_used_bytes]_vars

\* C10 (as stated): with RETENTION_DAYS <= 0 a sweep does not delete a file that was
\* just written (a file whose intake returned successfully and that has age 0).
C10_JustWrittenSurvives ==
    \A j \in sweep.removed :
        task[j].pc \in {"done", "returned"} => file[j].mtime # Now

\* C11 (as stated): a reader of a payload's final storage location never observes a
\* partially-written payload: the final path either does not exist or holds the
\* complete payload.
C11_FinalPathIsComplete ==
    \A j \in JobIds :
        file[j].state = "final" =>
            file[j].size = IF apiImpl = "bak" THEN WrittenSize(task[j].len)
                           ELSE PayloadSize(task[j].len)

\* the order of a SELECT without ORDER BY and of os.scandir is unspecified: every
\* enumeration of the rows / entries is a possible answer
RECURSIVE Enumerations(_)
Enumerations(S) ==
    IF S = {} THEN {<<>>}
    ELSE UNION {{<<x>> \o r : r \in Enumerations(S \ {x})} : x \in S}

\* GET /api/files (bak) list_files: select(Job).where(Job.owner_id == user.id), every
\* status included
ListFiles(u) == Enumerations({j \in JobIds : job[j].exists /\ job[j].owner_id = u})

\* GET /api/files (cur) api_files: every regular file of STORAGE_PATH, whoever calls
ApiFiles(u) == Enumerations({c[1] : c \in ListDir})

\* C12 (as stated): once the intakes have returned, listing an owner's jobs answers
\* exactly that owner's successful intakes, in creation order, jobs with status
\* 'deleted' (or a deleted file) included (stated for runs without any database or
\* file-system failure).
C12_ListRoundTrip ==
    faults = 0 /\ (\A j \in JobIds : TaskQuiet(j)) =>
        \A u \in (IF apiImpl = "bak" THEN Owners ELSE AuthOwners \ {NoOwner}) :
            LET expected == {j \in JobIds :
                                /\ task[j].owner = u
                                /\ IF apiImpl = "bak" THEN job[j].exists
                                   ELSE task[j].pc = "returned"}
            IN \A r \in (IF apiImpl = "bak" THEN ListFiles(u) ELSE ApiFiles(u)) :
                  /\ {r[i] : i \in DOMAIN r} = expected
                  /\ \A i, k \in DOMAIN r : i < k => r[i] < r[k]

\* the cur deployment without database or file-system failures, under the scheduling
\* the processes guarantee: every request handler and the cleaner loop keep running,
\* and days keep passing between sweeps
InitLive ==
    /\ apiImpl = "cur" /\ cleanerImpl = "cur"
    /\ RETENTION_DAYS = 1
    /\ plan = [o \in Owners |-> "free"]
    /\ storage_used_bytes = [o \in Owners |-> 0]
    /\ job = [j \in JobIds |-> NoRow]
    /\ file = [j \in JobIds |-> NoFile]
    /\ task = [j \in JobIds |-> NoTask]
    /\ del = [j \in JobIds |-> NoDel]
    /\ sweep = IdleSweep
    /\ nextJob = 1
    /\ faults = MaxFaults
    /\ decs = [j \in JobIds |-> 0]

NextLive ==
    \/ \E o \in AuthOwners, len \in TextLens : ApiEnqueue(o, len)
    \/ \E j \in JobIds : SaveReplace(j)
    \/ \E j \in JobIds : SaveStat(j)
    \/ \E j \in JobIds : SaveSelect(j)
    \/ \E j \in JobIds : SaveAccount(j)
    \/ SweepStartCur
    \/ SweepFileCur
    \/ SweepReconcileCur
    \/ CleanerSleep
    \/ Tick

SpecLive ==
    /\ InitLive
    /\ [][NextLive]_vars
    /\ \A j \in JobIds :
          /\ WF_vars(SaveReplace(j)) /\ WF_vars(SaveStat(j))
          /\ WF_vars(SaveSelect(j)) /\ WF_vars(SaveAccount(j))
    /\ WF_vars(SweepStartCur) /\ WF_vars(SweepFileCur) /\ WF_vars(SweepReconcileCur)
    /\ WF_vars(CleanerSleep)
    /\ SF_vars(Tick)

\* C13 (as stated): every payload accepted by intake is eventually deleted by the
\* sweeper once older than the threshold, and then its owner's ledger entry has been
\* reversed and its job status is 'deleted', for owned and anonymous jobs alike.
C13_EventuallySweptAndReversed ==
    \A j \in JobIds :
        (task[j].pc = "returned") ~>
            /\ file[j].state = "none"
            /\ task[j].owner # NoOwner => decs[j] >= 1
            /\ job[j].exists => job[j].status = "deleted"

\* C14 (as stated): when the ledger database is unavailable the admission path blocks
\* the intake: an owner's enqueue is accepted only after the owner's usage was read.
C14_UnreadableLedgerBlocksIntake ==
    [][\A j \in JobIds :
          /\ task[j].owner # NoOwner
          /\ task[j].pc # "returned" /\ task'[j].pc = "returned"
          => task[j].pc = "locked"]_vars

\* C15: DELETE /api/files/{job_id} takes effect only for the job's owner (anyone else,
\* or an unknown job id, gets 404 and nothing changes); the owner's delete removes the
\* file if present and, when it answers {deleted: true}, has decremented the owner's
\* ledger by the file's size (floor 0) and set status 'deleted'; a delete that finds
\* no file decrements nothing.
C15_DeleteOwnerOnly ==
    [][\A j \in JobIds :
          /\ del[j].pc = "idle" /\ del'[j].pc = "commit" =>
                /\ job[j].exists /\ del'[j].user = job[j].owner_id
                /\ del'[j].removed <=> file[j].state = "final"
                /\ del'[j].removed =>
                      file'[j].state = "none" /\ del'[j].size = file[j].size
                /\ ~del'[j].removed => file' = file
                /\ job' = job /\ storage_used_bytes' = storage_used_bytes
          /\ del[j].pc = "commit" /\ del'[j].pc = "idle" /\ faults' = faults =>
                /\ job'[j].status = "deleted"
                /\ \A o \in Owners :
                      storage_used_bytes'[o] =
                         IF del[j].removed /\ o = job[j].owner_id
                         THEN (IF storage_used_bytes[o] > del[j].size
                               THEN storage_used_bytes[o] - del[j].size ELSE 0)
                         ELSE storage_used_bytes[o]]_vars

\* C15 case: the owner repeats the delete on a job that is already 'deleted' and whose
\* bytes were already taken off the ledger; the repeated call found no file
C15_RepeatedDelete ==
    \E j \in JobIds :
        /\ del[j].pc = "commit" /\ ~del[j].removed
        /\ job[j].status = "deleted" /\ decs[j] = 1

\* everything that writes the ledger, from an empty ledger: the intakes of both
\* generations, the delete API and the registry-driven sweep; the retention period is
\* negative, so a stored file is due at once
InitLedger ==
    /\ \E d \in {<<"bak", "bak">>, <<"cur", "cur">>} : apiImpl = d[1] /\ cleanerImpl = d[2]
    /\ RETENTION_DAYS = -MaxRetention
    /\ plan = [o \in Owners |-> "free"]
    /\ storage_used_bytes = [o \in Owners |-> 0]
    /\ Blank

NextLedger ==
    \/ \E u \in Owners, len \in TextLens : Enqueue(u, len)
    \/ \E j \in JobIds : ProcCreate(j)
    \/ \E j \in JobIds : ProcOpen(j)
    \/ \E j \in JobIds : ProcWrite(j)
    \/ \E j \in JobIds : ProcSize(j)
    \/ \E j \in JobIds : ProcInc(j)
    \/ \E j \in JobIds : ProcUpdate(j)
    \/ \E o \in AuthOwners, len \in TextLens : ApiEnqueue(o, len)
    \/ \E j \in JobIds : SaveReplace(j)
    \/ \E j \in JobIds : SaveStat(j)
    \/ \E j \in JobIds : SaveSelect(j)
    \/ \E j \in JobIds : SaveAccount(j)
    \/ \E u \in Owners, j \in JobIds : DelStart(u, j)
    \/ \E j \in JobIds : DelCommit(j)
    \/ SweepStartBak
    \/ SweepRemoveBak
    \/ SweepAccountBak
    \/ SweepReturnBak
    \/ CleanerSleep

SpecLedger == InitLedger /\ [][NextLedger]_vars

\* the bytes the committed intakes of owner o added to the ledger
RECURSIVE Credited(_, _)
Credited(o, S) ==
    IF S = {} THEN 0
    ELSE LET j == CHOOSE x \in S : TRUE
         IN (IF task[j].owner = o THEN task[j].inc ELSE 0) + Credited(o, S \ {j})

\* C16: ledger updates of one owner are atomic with respect to each other: under any
\* interleaving of intakes, sweeps and delete calls every committed increment adds its
\* delta to the value the ledger holds at that moment and every committed decrement
\* subtracts (floored at 0) from it, nothing else changes the ledger, and while no
\* decrement was applied the counter equals its initial value (0) plus the deltas of
\* all committed increments.
C16_NoLostUpdate ==
    [][/\ \A j \in JobIds :
            task'[j].inc # task[j].inc =>
                storage_used_bytes' =
                    [storage_used_bytes EXCEPT ![task[j].owner] = @ + task'[j].inc]
       /\ \A j \in JobIds :
            decs'[j] # decs[j] =>
                \E o \in Owners, d \in {del[j].size, sweep.size} :
                    storage_used_bytes' =
                        [storage_used_bytes EXCEPT ![o] = DecUserStorage(@, d)]
       /\ ((\A j \in JobIds : task'[j].inc = task[j].inc /\ decs'[j] = decs[j])
              => storage_used_bytes' = storage_used_bytes)
       /\ ((\A j \in JobIds : decs'[j] = 0)
              => \A o \in Owners : storage_used_bytes'[o] = Credited(o, JobIds)')
      ]_vars

\* C16 case: two intakes of one owner race on the ledger row; one holds the row lock
\* while the other is at its SELECT ... FOR UPDATE
C16_ContendedRow ==
    \E i, j \in JobIds :
        /\ i # j /\ task[i].owner = task[j].owner
        /\ task[i].pc = "locked" /\ task[j].pc = "select"

\* C17 (as stated): within one intake the order is save -> register -> increment: the
\* job record never exists before the payload file is written, and the ledger is never
\* incremented before the job is registered or with a size other than the file size.
C17_SaveRegisterIncrement ==
    \A j \in JobIds :
        /\ job[j].exists => task[j].pc \notin {"open", "write"}
        /\ task[j].inc > 0 => job[j].exists /\ task[j].inc = task[j].size

\* C18 (as stated): if the write to the temporary path or the rename fails, the save
\* fails and afterwards neither the final nor the temporary path exists, and no job
\* record or ledger increment was made.
C18_FailedSaveLeavesNothing ==
    \A j \in JobIds :
        task[j].pc = "failed" =>
            file[j].state = "none" /\ ~job[j].exists /\ task[j].inc = 0

\* C18 (amended): if the write to the temporary path or the rename fails, the save
\* fails, the final path does not exist and no job record or ledger increment was
\* made; the temporary file may remain in the storage root, never promoted.
C18_FailedSaveNeverPromoted ==
    \A j \in JobIds :
        task[j].pc = "failed" =>
            file[j].state # "final" /\ ~job[j].exists /\ task[j].inc = 0

\* C18 case: the rename failed and the complete temporary file is still there
C18_TemporaryFileRemains ==
    \E j \in JobIds :
        task[j].pc = "failed" /\ file[j].state = "tmp" /\ file[j].size > 0

\* C19 (as stated): bookkeeping is best-effort after a successful write: when recording
\* the job or updating the ledger fails, the intake keeps the file and still returns
\* its result instead of raising.
C19_BookkeepingFailureIsSwallowed ==
    \A j \in JobIds :
        /\ task[j].pc # "raised"
        /\ task[j].pc \in {"done", "returned"} => file[j].state = "final"

\* C20: the cleaner loop runs one sweep at a time and never stops: a sweep starts only
\* while the loop sleeps and no sweep is in progress, a sweep in progress always has a
\* next step, and after every sweep, whatever it returned or raised, the loop sleeps
\* and can then start another sweep.
C20_LoopNeverStops ==
    /\ ENABLED (SweepStartBak \/ SweepStartCur) => sweep.pc = "sleep"
    /\ sweep.pc = "sleep" => sweep = IdleSweep /\ ENABLED (SweepStartBak \/ SweepStartCur)
    /\ sweep.pc \notin {"sleep", "returned"} =>
           ENABLED (SweepRemoveBak \/ SweepAccountBak \/ SweepReturnBak
                    \/ SweepFileCur \/ SweepReconcileCur)
    /\ sweep.pc = "returned" => ENABLED CleanerSleep

\* C20 case: a sweep of the bak cleaner, whose loop has no try, failed as a whole, came
\* back with an error result and the loop goes on to sleep
C20_FailedSweepLoopGoesOn ==
    /\ cleanerImpl = "bak"
    /\ sweep.pc = "returned" /\ sweep.res.kind = "error"
    /\ ENABLED CleanerSleep

\* C22: each stored file's size is subtracted from its owner's ledger at most once:
\* whether the sweep and the delete API race on a job or the sweep runs again after a
\* failed status update, no job's file is decremented twice.
C22_DecrementedAtMostOnce == \A j \in JobIds : decs[j] <= 1

\* C23 (as stated): the ledger is decremented for a job only after that job's size was
\* added to it: a decrement for job j is applied only once process_task has finished.
C23_DecrementAfterIncrement ==
    [][\A j \in JobIds : decs'[j] > decs[j] => task[j].pc = "done"]_vars

\* C22 case: job j's bytes were taken off once and its file is gone, but its row still
\* (or again) says 'done', and a later sweep has selected j
C22_LaterSweepSelectsJob ==
    \E j \in JobIds :
        /\ decs[j] = 1 /\ job[j].status = "done" /\ file[j].state = "none"
        /\ sweep.pc = "scan" /\ <<j, "final">> \in sweep.todo /\ j \notin sweep.decd

\* the Quota Guard with long texts: the bak generation, every account on the pro plan,
\* an empty ledger, a negative retention period (a stored file is due at once)
AdmitTextLens == {MaxTextLen, LongTextLen}

InitAdmit ==
    /\ apiImpl = "bak" /\ cleanerImpl = "bak"
    /\ RETENTION_DAYS = -MaxRetention
    /\ plan = [o \in Owners |-> "pro"]
    /\ storage_used_bytes = [o \in Owners |-> 0]
    /\ Blank

NextAdmit ==
    \/ \E u \in Owners, len \in AdmitTextLens : Enqueue(u, len)
    \/ \E j \in JobIds : ProcCreate(j)
    \/ \E j \in JobIds : ProcOpen(j)
    \/ \E j \in JobIds : ProcWrite(j)
    \/ \E j \in JobIds : ProcSize(j)
    \/ \E j \in JobIds : ProcInc(j)
    \/ \E j \in JobIds : ProcUpdate(j)
    \/ \E u \in Owners, j \in JobIds : DelStart(u, j)
    \/ \E j \in JobIds : DelCommit(j)
    \/ SweepStartBak
    \/ SweepRemoveBak
    \/ SweepAccountBak
    \/ SweepReturnBak
    \/ CleanerSleep

SpecAdmit == InitAdmit /\ [][NextAdmit]_vars

\* C21: admission is advisory: an admitted intake that shared no part of the time
\* between its admission check and its ledger increment with another admitted intake of
\* the same owner never leaves storage_used_bytes above the quota (the estimate is at
\* least the size added); two concurrent intakes can jointly exceed it.
C21_LoneIntakeStaysWithinQuota ==
    [][\A j \in JobIds :
          task[j].pc = "inc" /\ task'[j].pc = "update" /\ task[j].alone =>
              storage_used_bytes'[task[j].owner] <= QuotaOf(plan[task[j].owner])]_vars

\* C21 case: two intakes of one owner both passed the Quota Guard, both increments
\* are in the ledger and storage_used_bytes is above the owner's quota
C21_JointOvershoot ==
    \E i, j \in JobIds :
        /\ i # j /\ task[i].owner = task[j].owner
        /\ task[i].inc > 0 /\ task[j].inc > 0
        /\ storage_used_bytes[task[j].owner] > QuotaOf(plan[task[j].owner])

====
